---- MODULE Spec2Model ----
(***************************************************************************)
(* Room scheduling by greedy graph colouring (day_1.py).                   *)
(*                                                                         *)
(*   generate_random_data   builds events E1..En and the list of          *)
(*                          conflicting pairs, one random draw per pair    *)
(*   schedule_events        builds the conflict graph and colours it with  *)
(*                          greedy_color(strategy="largest_first")         *)
(*   run_parametrized_tests three nested loops, one trial per iteration    *)
(*                                                                         *)
(* Probabilities and random draws are rationals with denominator Scale:    *)
(* a draw d stands for d/Scale in [0,1), a probability p for p/Scale in    *)
(* [0,1].                                                                  *)
(***************************************************************************)
EXTENDS Integers, Sequences, FiniteSets, TLC

\* ---------------------------------------------------------------- bounds
MaxEvents == 2      \* largest event count the harness is given
MaxLen == 2         \* longest event_sizes / conflict_probs list
MaxReps == 2        \* largest repetition count
MaxTrials == 4      \* most trials of one harness run
Scale == 2          \* denominator of probabilities and draws
GenEvents == 4      \* most events of a trial called alone
MaxNodes == 5       \* most events of an instance handed to schedule_events
OrderNodes == 6     \* most events of an instance of OrderSpec
OrderConflicts == 9 \* most conflicts of such an instance

VARIABLES
    event_sizes,      \* run_parametrized_tests: parameter
    conflict_probs,   \* run_parametrized_tests: parameter
    repetitions,      \* run_parametrized_tests: parameter
    results,          \* run_parametrized_tests: the list of result rows
    i, j, k,          \* items consumed so far by each of the three loops
    num_events,       \* loop variable of the outer loop
    conflict_prob,    \* loop variable of the middle loop
    events,           \* the instance's event list
    conflicts,        \* the instance's conflict list
    room_assignment,  \* schedule_events: the colouring
    total_rooms,      \* schedule_events: the value returned
    pc                \* the statement about to run

vars == <<event_sizes, conflict_probs, repetitions, results, i, j, k,
          num_events, conflict_prob, events, conflicts, room_assignment,
          total_rooms, pc>>

\* ------------------------------------------------------------- sequences
Range(s) == {s[x] : x \in DOMAIN s}

Max(S) == CHOOSE m \in S : \A x \in S : x <= m

\* The element of a one-element set.  The loops below run their next round
\* as Only({Loop(a, t) : a \in {...}, t \in {...}}), which computes the
\* value a round hands to the next one once.
Only(S) == CHOOSE r \in S : TRUE

RECURSIVE Flatten(_)
Flatten(ss) == IF ss = <<>> THEN <<>> ELSE Head(ss) \o Flatten(Tail(ss))

\* --------------------------------------------------- generate_random_data
\* f"E{i}"
EventName(n) == "E" \o ToString(n)

\* A slip: range(0, num_events + 1).
EventListFromZero(n) == [x \in 1..(n + 1) |-> EventName(x - 1)]

\* [f"E{i}" for i in range(1, num_events + 1)]
EventList(n) == [x \in 1..n |-> EventName(x)]

\* A slip: events[i:] in place of events[i + 1:].
PairListWithSelf(evs) ==
    Flatten([a \in 1..Len(evs) |->
                [b \in 1..(Len(evs) - a + 1) |-> <<evs[a], evs[a + b - 1]>>]])

\* The (e1, e2) the comprehension visits, in its order:
\* for i, e1 in enumerate(events) for e2 in events[i + 1:]
PairList(evs) ==
    Flatten([a \in 1..Len(evs) |->
                [b \in 1..(Len(evs) - a) |-> <<evs[a], evs[a + b]>>]])

\* A slip: <= in place of <.
DrawnInclusive(draw, p) == draw <= p

\* if random.random() < conflict_probability
Drawn(draw, p) == draw < p

\* The comprehension's filter: pair x is kept when its draw passes.
RECURSIVE KeepDrawn(_, _, _)
KeepDrawn(pairs, draws, p) ==
    IF pairs = <<>> THEN <<>>
    ELSE (IF Drawn(Head(draws), p) THEN <<Head(pairs)>> ELSE <<>>)
         \o KeepDrawn(Tail(pairs), Tail(draws), p)

generate_random_data(n, p, draws) ==
    LET evs == EventList(n)
    IN  [events |-> evs, conflicts |-> KeepDrawn(PairList(evs), draws, p)]

\* The outcomes of random.random(), one per visited pair.
DrawSeqs(n) == [1..Len(PairList(EventList(n))) -> 0..(Scale - 1)]

\* -------------------------------------------------------- schedule_events
\* G.add_nodes_from(events); G.add_edges_from(conflicts): the nodes in
\* insertion order (an edge adds an endpoint that is not yet a node), and
\* the symmetric adjacency sets.
AddNode(nodes, v) == IF v \in Range(nodes) THEN nodes ELSE Append(nodes, v)

RECURSIVE AddNodes(_, _)
AddNodes(nodes, new) ==
    IF new = <<>> THEN nodes
    ELSE Only({AddNodes(a, t) : a \in {AddNode(nodes, Head(new))},
                                t \in {Tail(new)}})

EndPoints(cs) == Flatten([x \in 1..Len(cs) |-> <<cs[x][1], cs[x][2]>>])

\* A slip: nx.DiGraph, whose adjacency holds the successors only.
DirectedGraph(evs, cs) ==
    LET nodes == AddNodes(AddNodes(<<>>, evs), EndPoints(cs))
    IN  [nodes |-> nodes,
         adj |-> [v \in Range(nodes) |->
                    {cs[x][2] : x \in {y \in 1..Len(cs) : cs[y][1] = v}}]]

Graph(evs, cs) ==
    LET nodes == AddNodes(AddNodes(<<>>, evs), EndPoints(cs))
    IN  [nodes |-> nodes,
         adj |-> [v \in Range(nodes) |->
                    {cs[x][2] : x \in {y \in 1..Len(cs) : cs[y][1] = v}}
                    \cup {cs[x][1] : x \in {y \in 1..Len(cs) : cs[y][2] = v}}]]

\* G.degree: a self-loop counts twice.
Degree(G, v) == Cardinality(G.adj[v]) + (IF v \in G.adj[v] THEN 1 ELSE 0)

\* A slip: a sort that does not keep the insertion order of equal degrees.
RECURSIVE InsertByDegreeUnstable(_, _, _)
InsertByDegreeUnstable(G, sorted, v) ==
    IF sorted = <<>> THEN <<v>>
    ELSE IF Degree(G, Head(sorted)) > Degree(G, v)
         THEN <<Head(sorted)>> \o InsertByDegreeUnstable(G, Tail(sorted), v)
         ELSE <<v>> \o sorted

\* sorted(G, key=G.degree, reverse=True): a stable sort, so nodes of equal
\* degree keep their insertion order.
RECURSIVE InsertByDegree(_, _, _)
InsertByDegree(G, sorted, v) ==
    IF sorted = <<>> THEN <<v>>
    ELSE IF Degree(G, Head(sorted)) >= Degree(G, v)
         THEN <<Head(sorted)>> \o InsertByDegree(G, Tail(sorted), v)
         ELSE <<v>> \o sorted

RECURSIVE SortByDegree(_, _, _)
SortByDegree(G, sorted, rest) ==
    IF rest = <<>> THEN sorted
    ELSE Only({SortByDegree(G, a, t) :
                  a \in {InsertByDegree(G, sorted, Head(rest))},
                  t \in {Tail(rest)}})

strategy_largest_first(G) == SortByDegree(G, <<>>, G.nodes)

\* A slip: the colour after the largest one a neighbour holds.
NextAfterLargest(used) == IF used = {} THEN 0 ELSE Max(used) + 1

\* for color in itertools.count(): if color not in nbr_colors: break
FirstUnused(used) ==
    CHOOSE c \in 0..Cardinality(used) :
        c \notin used /\ \A d \in 0..(c - 1) : d \in used

\* nbr_colors = {colors[v] for v in G[u] if v in colors}
NbrColors(G, colors, u) == {colors[v] : v \in G.adj[u] \cap DOMAIN colors}

\* colors[u] = color, the body of greedy_color's loop.
ColorNode(G, colors, u) == (u :> FirstUnused(NbrColors(G, colors, u))) @@ colors

\* for u in nodes: ...
RECURSIVE ColorNodes(_, _, _)
ColorNodes(G, colors, nodes) ==
    IF nodes = <<>> THEN colors
    ELSE Only({ColorNodes(G, a, t) : a \in {ColorNode(G, colors, Head(nodes))},
                                     t \in {Tail(nodes)}})

\* colors = {}; nodes = strategy(G, colors); the loop over nodes.
greedy_color(G) == ColorNodes(G, <<>>, strategy_largest_first(G))

\* A slip: the largest index, without the + 1.
LargestIndex(ra) == IF DOMAIN ra # {} THEN Max(Range(ra)) ELSE 0

\* A slip: len(room_assignment), the events in place of the rooms.
AssignedCount(ra) == Cardinality(DOMAIN ra)

\* max(room_assignment.values()) + 1 if room_assignment else 0
TotalRooms(ra) == IF DOMAIN ra # {} THEN Max(Range(ra)) + 1 ELSE 0

\* ------------------------------------------------ run_parametrized_tests
Row(n, p, rooms) ==
    [num_events |-> n, conflict_probability |-> p, total_rooms |-> rooms]

SeqsUpTo(S, n) == UNION {[1..m -> S] : m \in 0..n}

\* total_rooms before schedule_events has returned: not yet bound.
NoRooms == 0 - 1

Init ==
    /\ event_sizes \in SeqsUpTo(0..MaxEvents, MaxLen)
    /\ conflict_probs \in SeqsUpTo(0..Scale, MaxLen)
    /\ repetitions \in 0..MaxReps
    /\ Len(event_sizes) * Len(conflict_probs) * repetitions <= MaxTrials
    /\ results = <<>>
    /\ i = 0 /\ j = 0 /\ k = 0
    /\ num_events = 0 /\ conflict_prob = 0
    /\ events = <<>> /\ conflicts = <<>>
    /\ room_assignment = <<>> /\ total_rooms = NoRooms
    /\ pc = "for_events"

\* for num_events in event_sizes:
ForEvents ==
    /\ pc = "for_events"
    /\ \/ /\ i < Len(event_sizes)
          /\ i' = i + 1
          /\ num_events' = event_sizes[i + 1]
          /\ j' = 0
          /\ pc' = "for_probs"
       \/ /\ i >= Len(event_sizes)
          /\ pc' = "done"
          /\ UNCHANGED <<i, j, num_events>>
    /\ UNCHANGED <<event_sizes, conflict_probs, repetitions, results, k,
                   conflict_prob, events, conflicts, room_assignment,
                   total_rooms>>

\* for conflict_prob in conflict_probs:
ForProbs ==
    /\ pc = "for_probs"
    /\ \/ /\ j < Len(conflict_probs)
          /\ j' = j + 1
          /\ conflict_prob' = conflict_probs[j + 1]
          /\ k' = 0
          /\ pc' = "for_reps"
       \/ /\ j >= Len(conflict_probs)
          /\ pc' = "for_events"
          /\ UNCHANGED <<j, k, conflict_prob>>
    /\ UNCHANGED <<event_sizes, conflict_probs, repetitions, results, i,
                   num_events, events, conflicts, room_assignment,
                   total_rooms>>

\* A slip: range(repetitions + 1).
ForRepsOneMore ==
    /\ pc = "for_reps"
    /\ \/ /\ k <= repetitions
          /\ k' = k + 1
          /\ pc' = "generate"
       \/ /\ k > repetitions
          /\ pc' = "for_probs"
          /\ UNCHANGED k
    /\ UNCHANGED <<event_sizes, conflict_probs, repetitions, results, i, j,
                   num_events, conflict_prob, events, conflicts,
                   room_assignment, total_rooms>>

\* for _ in range(repetitions):
ForReps ==
    /\ pc = "for_reps"
    /\ \/ /\ k < repetitions
          /\ k' = k + 1
          /\ pc' = "generate"
       \/ /\ k >= repetitions
          /\ pc' = "for_probs"
          /\ UNCHANGED k
    /\ UNCHANGED <<event_sizes, conflict_probs, repetitions, results, i, j,
                   num_events, conflict_prob, events, conflicts,
                   room_assignment, total_rooms>>

\* events, conflicts = generate_random_data(num_events, conflict_prob)
Generate ==
    /\ pc = "generate"
    /\ \E draws \in DrawSeqs(num_events) :
          \E inst \in {generate_random_data(num_events, conflict_prob, draws)} :
             /\ events' = inst.events
             /\ conflicts' = inst.conflicts
    /\ pc' = "schedule"
    /\ UNCHANGED <<event_sizes, conflict_probs, repetitions, results, i, j,
                   k, num_events, conflict_prob, room_assignment,
                   total_rooms>>

\* total_rooms = schedule_events(events, conflicts)
Schedule ==
    /\ pc = "schedule"
    /\ \E G \in {Graph(events, conflicts)} :
          \E ra \in {greedy_color(G)} :
             /\ room_assignment' = ra
             /\ total_rooms' = TotalRooms(ra)
    /\ pc' = "append"
    /\ UNCHANGED <<event_sizes, conflict_probs, repetitions, results, i, j,
                   k, num_events, conflict_prob, events, conflicts>>

\* A slip: results.insert(0, {...}).
InsertResultFirst ==
    /\ pc = "append"
    /\ results' = <<Row(num_events, conflict_prob, total_rooms)>> \o results
    /\ pc' = "for_reps"
    /\ UNCHANGED <<event_sizes, conflict_probs, repetitions, i, j, k,
                   num_events, conflict_prob, events, conflicts,
                   room_assignment, total_rooms>>

\* results.append({...})
AppendResult ==
    /\ pc = "append"
    /\ results' = Append(results, Row(num_events, conflict_prob, total_rooms))
    /\ pc' = "for_reps"
    /\ UNCHANGED <<event_sizes, conflict_probs, repetitions, i, j, k,
                   num_events, conflict_prob, events, conflicts,
                   room_assignment, total_rooms>>

Next == ForEvents \/ ForProbs \/ ForReps \/ Generate \/ Schedule
        \/ AppendResult

Spec == Init /\ [][Next]_vars

\* ------------------------------------------------- one trial, called alone
\* generate_random_data(n, p) followed by schedule_events on its result.
TrialInit ==
    /\ num_events \in 0..GenEvents
    /\ conflict_prob \in 0..Scale
    /\ event_sizes = <<>> /\ conflict_probs = <<>> /\ repetitions = 0
    /\ results = <<>>
    /\ i = 0 /\ j = 0 /\ k = 0
    /\ events = <<>> /\ conflicts = <<>>
    /\ room_assignment = <<>> /\ total_rooms = NoRooms
    /\ pc = "call_generate"

CallGenerate ==
    /\ pc = "call_generate"
    /\ \E draws \in DrawSeqs(num_events) :
          \E inst \in {generate_random_data(num_events, conflict_prob, draws)} :
             /\ events' = inst.events
             /\ conflicts' = inst.conflicts
    /\ pc' = "call_schedule"
    /\ UNCHANGED <<event_sizes, conflict_probs, repetitions, results, i, j,
                   k, num_events, conflict_prob, room_assignment,
                   total_rooms>>

CallSchedule ==
    /\ pc = "call_schedule"
    /\ \E G \in {Graph(events, conflicts)} :
          \E ra \in {greedy_color(G)} :
             /\ room_assignment' = ra
             /\ total_rooms' = TotalRooms(ra)
    /\ pc' = "returned"
    /\ UNCHANGED <<event_sizes, conflict_probs, repetitions, results, i, j,
                   k, num_events, conflict_prob, events, conflicts>>

TrialNext == CallGenerate \/ CallSchedule

TrialSpec == TrialInit /\ [][TrialNext]_vars

\* --------------------------------------- schedule_events, called alone
\* The conflicts at the positions in keep, in list order.
KeepAt(pairs, keep) ==
    LET F[x \in 0..Len(pairs)] ==
            IF x = 0 THEN <<>>
            ELSE IF x \in keep THEN Append(F[x - 1], pairs[x]) ELSE F[x - 1]
    IN  F[Len(pairs)]

\* Each conflict (e1, e2) written as (e2, e1).
Swapped(cs) == [x \in 1..Len(cs) |-> <<cs[x][2], cs[x][1]>>]

\* Any instance of at most maxn events and maxc conflicts: events E1..En and
\* any conflicts between distinct events, each written earlier event first
\* or, when swaps allows it, later event first.
InstanceInit(maxn, maxc, swaps) ==
    /\ \E n \in 0..maxn :
          /\ events = EventList(n)
          /\ \E swap \in swaps :
                \E pairs \in {IF swap THEN Swapped(PairList(EventList(n)))
                                      ELSE PairList(EventList(n))} :
                   \E keep \in SUBSET (1..Len(pairs)) :
                      /\ Cardinality(keep) <= maxc
                      /\ conflicts = KeepAt(pairs, keep)
    /\ event_sizes = <<>> /\ conflict_probs = <<>> /\ repetitions = 0
    /\ results = <<>>
    /\ i = 0 /\ j = 0 /\ k = 0
    /\ num_events = 0 /\ conflict_prob = 0
    /\ room_assignment = <<>> /\ total_rooms = NoRooms
    /\ pc = "call_schedule"

SchedInit == InstanceInit(MaxNodes, MaxNodes * MaxNodes, BOOLEAN)

SchedNext == CallSchedule

SchedSpec == SchedInit /\ [][SchedNext]_vars

OrderInit == InstanceInit(OrderNodes, OrderConflicts, {FALSE})

OrderSpec == OrderInit /\ [][SchedNext]_vars

\* The harness runs its statements one after the other and never waits.
FairSpec == Spec /\ WF_vars(Next)

\* ============================================================ properties
\* What the properties speak of, read off the instance itself.
Conflicting(a, b) ==
    \E x \in 1..Len(conflicts) :
        conflicts[x] = <<a, b>> \/ conflicts[x] = <<b, a>>

Neighbours(e) == {f \in Range(events) : f # e /\ Conflicting(e, f)}

ConflictDegree(e) == Cardinality(Neighbours(e))

Position(e) == CHOOSE x \in 1..Len(events) : events[x] = e

Returned == pc = "returned"

\* ------------------------------------------------------------------ C1
\* C1: the assignment schedule_events computes gives a room to every event
\* and different rooms to the two events of every conflict.
C1_ConflictFree ==
    Returned =>
        /\ DOMAIN room_assignment = Range(events)
        /\ \A x \in 1..Len(conflicts) :
              room_assignment[conflicts[x][1]] # room_assignment[conflicts[x][2]]

C1_Witness ==
    /\ Returned
    /\ Len(events) = MaxNodes
    /\ Len(conflicts) >= MaxNodes
    /\ total_rooms < MaxNodes

\* ------------------------------------------------------------------ C2
Cliques ==
    {T \in SUBSET Range(events) :
        \A a \in T : \A b \in T : a # b => Conflicting(a, b)}

LargestClique == Max({Cardinality(T) : T \in Cliques})

\* C2 as stated: the room count is at least 1 + the size of the largest set
\* of mutually conflicting events.
C2_AsStated == Returned => total_rooms >= 1 + LargestClique

\* C2, amended: the room count is at least the size of the largest set of
\* mutually conflicting events.
C2_CliqueBound == Returned => total_rooms >= LargestClique

C2_Witness ==
    /\ Returned
    /\ LargestClique >= 3
    /\ LargestClique < Len(events)
    /\ total_rooms = LargestClique

\* ------------------------------------------------------------------ C3
Complete ==
    \A a \in Range(events) : \A b \in Range(events) :
        a # b => Conflicting(a, b)

Triangle ==
    /\ events = <<"E1", "E2", "E3", "E4", "E5">>
    /\ Range(conflicts) = {<<"E1", "E2">>, <<"E2", "E3">>, <<"E1", "E3">>}

\* C3: n >= 1 events that all conflict pairwise take n rooms, n >= 1 events
\* without conflicts take 1 room, and the triangle E1 E2 E3 with E4 and E5
\* free of conflicts takes 3 rooms.
C3_FixedShapes ==
    Returned =>
        /\ (Len(events) >= 1 /\ Complete) => total_rooms = Len(events)
        /\ (Len(events) >= 1 /\ conflicts = <<>>) => total_rooms = 1
        /\ Triangle => total_rooms = 3

C3_Witness == Returned /\ Triangle /\ total_rooms = 3

C3_WitnessComplete ==
    Returned /\ Len(events) = 4 /\ Complete /\ total_rooms = 4

\* ----------------------------------------------------------------- C10
MaxConflictDegree == Max({ConflictDegree(e) : e \in Range(events)})

\* C10: on a non-empty instance the rooms in use are exactly
\* 0..total_rooms - 1, total_rooms is the number of distinct rooms, and
\* 1 <= total_rooms <= min(number of events, largest degree + 1).
C10_GapFree ==
    (Returned /\ events # <<>>) =>
        /\ Range(room_assignment) = 0..(total_rooms - 1)
        /\ total_rooms = Cardinality(Range(room_assignment))
        /\ 1 <= total_rooms
        /\ total_rooms <= Len(events)
        /\ total_rooms <= MaxConflictDegree + 1

C10_Witness ==
    /\ Returned
    /\ total_rooms = 3
    /\ total_rooms < Len(events)
    /\ total_rooms < MaxConflictDegree + 1

\* ------------------------------------------------------------------ C8
\* The visiting order of largest_first: larger degree in the whole conflict
\* graph first, equal degrees in the order of the event list.
VisitedBefore(nb, a, b) ==
    \/ Cardinality(nb[a]) > Cardinality(nb[b])
    \/ Cardinality(nb[a]) = Cardinality(nb[b]) /\ Position(a) < Position(b)

EarlierRooms(nb, u) ==
    {room_assignment[v] : v \in {w \in nb[u] : VisitedBefore(nb, w, u)}}

NeighbourMap == [e \in Range(events) |-> Neighbours(e)]

\* C8, amended: events are visited by decreasing degree in the whole conflict
\* graph, equal degrees in list order; each event takes the smallest room
\* that no conflicting event visited before it holds; the room count is the
\* largest room + 1 (0 without events).
C8_LargestFirst ==
    Returned =>
        LET nb == NeighbourMap
        IN  /\ DOMAIN room_assignment = Range(events)
            /\ \A u \in Range(events) :
                  LET earlier == EarlierRooms(nb, u)
                  IN  /\ room_assignment[u] \in Nat
                      /\ room_assignment[u] \notin earlier
                      /\ \A c \in 0..(room_assignment[u] - 1) : c \in earlier
            /\ total_rooms = IF events = <<>> THEN 0
                             ELSE Max(Range(room_assignment)) + 1

\* The procedure C8 describes: pick an uncoloured event with the most
\* uncoloured neighbours, give it the smallest room no coloured neighbour
\* holds.  Ties are left open: every way of breaking them is followed.
RemainingDegree(nb, col, v) == Cardinality(nb[v] \ DOMAIN col)

Candidates(nb, col) ==
    LET left == DOMAIN nb \ DOMAIN col
        most == Max({RemainingDegree(nb, col, w) : w \in left})
    IN  {v \in left : RemainingDegree(nb, col, v) = most}

SmallestFree(nb, col, v) ==
    LET used == {col[w] : w \in nb[v] \cap DOMAIN col}
    IN  CHOOSE c \in 0..Cardinality(used) :
            c \notin used /\ \A d \in 0..(c - 1) : d \in used

RECURSIVE RemainingDegreeColourings(_, _, _)
RemainingDegreeColourings(nb, cols, steps) ==
    IF steps = 0 THEN cols
    ELSE RemainingDegreeColourings(nb,
            UNION {{(v :> SmallestFree(nb, col, v)) @@ col
                        : v \in Candidates(nb, col)}
                   : col \in cols},
            steps - 1)

RemainingDegreeRoomCounts ==
    {IF events = <<>> THEN 0 ELSE Max(Range(col)) + 1 :
        col \in RemainingDegreeColourings(NeighbourMap, {<<>>}, Len(events))}

\* C8 as stated: the room count is the one the highest-remaining-degree
\* procedure arrives at, under some way of breaking its ties.
C8_AsStated == Returned => total_rooms \in RemainingDegreeRoomCounts

\* Six events, each in three conflicts: all degrees are equal, the list
\* order alone decides the visiting order, and four rooms are taken.
C8_Witness ==
    /\ Returned
    /\ Len(events) = 6
    /\ \A e \in Range(events) : ConflictDegree(e) = 3
    /\ total_rooms = 4

\* ------------------------------------------------------------------ C4
Generated == pc \in {"call_schedule", "returned"}

\* The conflicts that name events a and b, in either orientation.
ConflictsOf(a, b) ==
    {x \in 1..Len(conflicts) :
        conflicts[x] = <<a, b>> \/ conflicts[x] = <<b, a>>}

\* C4: whatever the draws, probability 0 gives no conflict and probability 1
\* gives every unordered pair of distinct events exactly once, n(n-1)/2
\* conflicts in all.
C4_Extremes ==
    Generated =>
        /\ conflict_prob = 0 => conflicts = <<>>
        /\ conflict_prob = Scale =>
              /\ 2 * Len(conflicts) = num_events * (num_events - 1)
              /\ \A a \in 1..Len(events) : \A b \in 1..Len(events) :
                    a < b =>
                        Cardinality(ConflictsOf(events[a], events[b])) = 1

C4_Witness ==
    /\ Generated
    /\ conflict_prob = Scale
    /\ num_events = GenEvents
    /\ Len(conflicts) >= GenEvents

C4_WitnessZero ==
    Generated /\ conflict_prob = 0 /\ num_events = GenEvents

\* ------------------------------------------------------------------ C5
\* C5: with event_count 0 the generator returns no events and no conflicts,
\* whatever the probability, and schedule_events returns 0 on the instance
\* without events and conflicts.
C5_Empty ==
    /\ (Generated /\ num_events = 0) => (events = <<>> /\ conflicts = <<>>)
    /\ (Returned /\ events = <<>> /\ conflicts = <<>>) => total_rooms = 0

C5_Witness ==
    /\ Returned
    /\ num_events = 0
    /\ conflict_prob = Scale
    /\ events = <<>>
    /\ total_rooms = 0

\* ------------------------------------------------------------------ C7
\* C7: the generator returns exactly event_count events, named E1..En and
\* pairwise distinct; every conflict joins two different events of the list;
\* no unordered pair of events is listed twice, in either orientation.
C7_WellFormed ==
    Generated =>
        /\ Len(events) = num_events
        /\ Cardinality(Range(events)) = num_events
        /\ \A x \in 1..Len(events) : events[x] = "E" \o ToString(x)
        /\ \A x \in 1..Len(conflicts) :
              /\ conflicts[x][1] \in Range(events)
              /\ conflicts[x][2] \in Range(events)
              /\ conflicts[x][1] # conflicts[x][2]
              /\ ConflictsOf(conflicts[x][1], conflicts[x][2]) = {x}

C7_Witness ==
    /\ Generated
    /\ num_events = GenEvents
    /\ conflict_prob \notin {0, Scale}
    /\ Len(conflicts) >= 2
    /\ 2 * Len(conflicts) < num_events * (num_events - 1)

\* ------------------------------------------------------------------ C6
Done == pc = "done"

Occurrences(s, v) == Cardinality({x \in 1..Len(s) : s[x] = v})

RowsOf(n, p) ==
    {x \in 1..Len(results) :
        results[x].num_events = n /\ results[x].conflict_probability = p}

RowsAtDone ==
    /\ Len(results) = Len(event_sizes) * Len(conflict_probs) * repetitions
    /\ \A n \in Range(event_sizes) : \A p \in Range(conflict_probs) :
          Cardinality(RowsOf(n, p)) =
              Occurrences(event_sizes, n) * Occurrences(conflict_probs, p)
                  * repetitions
    /\ \A x \in 1..Len(results) :
          /\ results[x].num_events \in Range(event_sizes)
          /\ results[x].conflict_probability \in Range(conflict_probs)
          /\ results[x].num_events >= 1 =>
                /\ 1 <= results[x].total_rooms
                /\ results[x].total_rooms <= results[x].num_events

\* C6: run_parametrized_tests comes to its end, and then results holds
\* |event_sizes| * |conflict_probs| * repetitions rows, repetitions rows for
\* each pair of the product (a pair listed more than once counted as often),
\* each with its pair and with 1 <= total_rooms <= num_events when
\* num_events >= 1.
C6_TerminatesWithRows == <>Done /\ [](Done => RowsAtDone)

C6_Witness ==
    /\ Done
    /\ Len(results) = MaxTrials
    /\ Len(event_sizes) = 2
    /\ repetitions = 2
    /\ \E x \in 1..Len(results) :
          results[x].total_rooms = 2 /\ results[x].num_events = 2
    /\ \E x \in 1..Len(results) :
          results[x].total_rooms = 1 /\ results[x].num_events = 2

\* ------------------------------------------------------------------ C9
AppendOnly ==
    \/ results' = results
    \/ /\ Len(results') = Len(results) + 1
       /\ SubSeq(results', 1, Len(results)) = results
       /\ pc = "append"

\* Row x belongs to the iteration the three nested loops reach x-th.
InLoopOrder ==
    \A x \in 1..Len(results) :
        LET perSize == Len(conflict_probs) * repetitions
        IN  /\ results[x].num_events = event_sizes[((x - 1) \div perSize) + 1]
            /\ results[x].conflict_probability =
                  conflict_probs[(((x - 1) \div repetitions)
                                     % Len(conflict_probs)) + 1]

\* The instance of the running trial holds this trial's events and conflicts
\* among them, nothing of an earlier trial.
FreshInstance ==
    pc \in {"schedule", "append"} =>
        /\ Len(events) = num_events
        /\ \A x \in 1..Len(conflicts) :
              /\ conflicts[x][1] \in Range(events)
              /\ conflicts[x][2] \in Range(events)
              /\ ConflictsOf(conflicts[x][1], conflicts[x][2]) = {x}
        /\ conflict_prob = 0 => conflicts = <<>>

\* C9: results only grows, by one row per trial and at its end; its rows
\* stand in the order of the loops (event_sizes outermost, conflict_probs
\* next, the repetitions of a pair side by side); each trial's instance is
\* built anew.
C9_AppendOnlyOrdered ==
    [][AppendOnly]_vars /\ []InLoopOrder /\ []FreshInstance

C9_Witness ==
    /\ Done
    /\ Len(results) = MaxTrials
    /\ Len(event_sizes) = 2
    /\ Len(conflict_probs) = 2
    /\ event_sizes[1] > event_sizes[2]
    /\ conflict_probs[1] > conflict_probs[2]
    /\ conflict_probs[2] = 0

C9_WitnessReps ==
    /\ Done
    /\ Len(results) = MaxTrials
    /\ repetitions = 2
    /\ Len(event_sizes) = 2
    /\ event_sizes[1] # event_sizes[2]

====
